---- MODULE Spec2Model ----
(***************************************************************************)
(* Verification model of jrestrepo86/mine (minepy):                        *)
(*   - dine_tools02.py : get_mask, MaskedLinear, MaskedMLP, UniformFlow    *)
(*   - mine_tools.py   : mine_batch, ema, ema_loss, MineModel.forward      *)
(*   - class_mi.py     : ClassMI.fit, calc_mi_fn, get_mi, get_curves       *)
(* Tensors are abstracted to what the claims are about: a unit of a layer  *)
(* is abstracted to the set of network inputs it is connected to, a batch  *)
(* row to the original index it was taken from, a recorded curve entry to  *)
(* the evaluation that produced it.                                        *)
(***************************************************************************)
EXTENDS Integers, Sequences, FiniteSets, TLC

VARIABLES
    \* ---- MaskedMLP (dine_tools02.py) ----
    mlp_args,        \* arguments of MaskedMLP(d_in, d_out, n_groups, hidden_sizes, mask_type)
    mlp_layers,      \* the masks of the MaskedLinear layers of the nn.Sequential
    mlp_conn,        \* per output unit: the input units it is connected to
    mlp_pc,
    \* ---- UniformFlow (dine_tools02.py) ----
    flow_args,       \* [d, dh, n_components]
    flow_c,          \* dependencies of c (N x [d x h]), per flat unit
    flow_gmm,        \* dependencies of gmm after view(N, d, -1): [j][m]
    flow_par,        \* [mu, std, w]: dependencies of the mixture parameters [j][m]
    flow_e,          \* dependencies of e[:, j]
    flow_pc,
    \* ---- MineModel (mine_tools.py) ----
    running_mean,    \* self.running_mean, a rational [n, d]
    mine_loss,       \* self.loss
    alpha,           \* self.alpha, a rational [n, d]
    mine_calls,      \* number of forward calls made
    mine_hist,       \* history: [mu, prev, inits] of the last call
    \* ---- mine_batch (mine_tools.py) ----
    mb_args,         \* [x, z, batch_size, shuffle]
    mb_batches,      \* the returned list
    mb_pc,
    \* ---- ClassMI.fit (class_mi.py) ----
    fit_args,        \* [max_epochs, lr_patience, stop_patience, stop_min_delta, n_batches]
    pc,              \* position in fit
    epoch,           \* i of `for i in range(max_epochs)`
    batch,           \* index of the next training batch of the epoch
    grad_enabled,    \* the process-wide autograd flag
    grad_prev,       \* stack of flags saved by the entered `with` blocks
    grad_at_call,    \* history: the flag when fit was called
    params,          \* the model parameters, as the number of updates applied
    lr,              \* the optimizer's learning rate, in units of 1e-8
    scheduler,       \* ReduceLROnPlateau: [best, num_bad_epochs]
    early_stopping,  \* EarlyStopping: [patience, delta, counter, min_loss, early_stop]
    acc,             \* the local `acc` after the last calc_mi_fn
    curves,          \* the six local lists of fit
    self_curves,     \* the six attributes assigned when fit returns
    steplog,         \* history: the steps of the current epoch, in order
    hist,            \* history: [best, stale, reduced, newbest] of validation accuracy, epochs run
    got              \* the value returned by the last get_curves() / get_mi()

maskVars  == <<mlp_args, mlp_layers, mlp_conn, mlp_pc>>
flowVars  == <<flow_args, flow_c, flow_gmm, flow_par, flow_e, flow_pc>>
emaVars   == <<running_mean, mine_loss, alpha, mine_calls, mine_hist>>
batchVars == <<mb_args, mb_batches, mb_pc>>
fitVars   == <<fit_args, pc, epoch, batch, grad_enabled, grad_prev, grad_at_call,
               params, lr, scheduler, early_stopping, acc, curves, self_curves,
               steplog, hist, got>>
vars      == <<maskVars, flowVars, emaVars, batchVars, fitVars>>

\* Components that a specification does not exercise stay idle.
MaskIdle ==
    /\ mlp_args = <<>> /\ mlp_layers = <<>> /\ mlp_conn = <<>> /\ mlp_pc = "idle"
FlowIdle ==
    /\ flow_args = <<>> /\ flow_c = <<>> /\ flow_gmm = <<>> /\ flow_par = <<>>
    /\ flow_e = <<>> /\ flow_pc = "idle"
EmaIdle ==
    /\ running_mean = <<>> /\ mine_loss = "idle" /\ alpha = <<>>
    /\ mine_calls = 0 /\ mine_hist = <<>>
BatchIdle ==
    /\ mb_args = <<>> /\ mb_batches = <<>> /\ mb_pc = "idle"
FitIdle ==
    /\ fit_args = <<>> /\ pc = "idle" /\ epoch = 0 /\ batch = 0
    /\ grad_enabled = TRUE /\ grad_prev = <<>> /\ grad_at_call = TRUE
    /\ params = 0 /\ lr = 0 /\ scheduler = <<>> /\ early_stopping = <<>>
    /\ acc = 0 /\ curves = <<>> /\ self_curves = <<>> /\ steplog = <<>>
    /\ hist = <<>> /\ got = <<>>

(***************************************************************************)
(* dine_tools02.py: get_mask, MaskedLinear, MaskedMLP                      *)
(***************************************************************************)
MaxGroups == 3      \* n_groups ranges over 1..MaxGroups
MaxMult   == 2      \* every layer width is n_groups * (1..MaxMult)
MaxHidden == 2      \* len(hidden_sizes) ranges over 0..MaxHidden

\* Units are numbered from 0, as torch.arange does.
Units(w) == 0 .. (w - 1)

\* get_mask with `x <= y` on the output layer too (is_output ignored).
get_mask_no_output(d_in, d_out, n_groups, mask_type, is_output) ==
    LET g_in  == d_in \div n_groups
        g_out == d_out \div n_groups
    IN  [x \in Units(d_in) |-> [y \in Units(d_out) |->
            LET gx == x \div g_in
                gy == y \div g_out
            IN  IF mask_type = "autoregressive"
                THEN (IF gx <= gy THEN 1 ELSE 0)
                ELSE (IF gx = gy THEN 1 ELSE 0)]]

\* get_mask: mask[x][y], x over the d_in inputs and y over the d_out outputs
\* (meshgrid with indexing="ij"), of the floor-divided group numbers.
get_mask(d_in, d_out, n_groups, mask_type, is_output) ==
    LET g_in  == d_in \div n_groups
        g_out == d_out \div n_groups
    IN  [x \in Units(d_in) |-> [y \in Units(d_out) |->
            LET gx == x \div g_in
                gy == y \div g_out
            IN  IF mask_type = "autoregressive"
                THEN (IF is_output
                      THEN (IF gx < gy THEN 1 ELSE 0)
                      ELSE (IF gx <= gy THEN 1 ELSE 0))
                ELSE (IF gx = gy THEN 1 ELSE 0)]]

\* MaskedMLP: the masks of the layers of the returned nn.Sequential; sizes is
\* [d_in] + hidden_sizes + [d_out]. (The ReLU between layers acts per unit.)
MaskedMLP(d_in, d_out, n_groups, hidden_sizes, mask_type) ==
    LET sizes == <<d_in>> \o hidden_sizes \o <<d_out>>
    IN  [i \in 1 .. (Len(sizes) - 1) |->
            [n_in  |-> sizes[i],
             n_out |-> sizes[i + 1],
             mask  |-> get_mask(sizes[i], sizes[i + 1], n_groups, mask_type,
                                i = Len(sizes) - 1)]]

\* self.mask.T * self.weight: the weight from input x to output y is kept
\* exactly when mask.T[y][x] = mask[x][y] is 1.
MaskT(layer) ==
    [y \in Units(layer.n_out) |-> [x \in Units(layer.n_in) |-> layer.mask[x][y]]]

\* MaskedLinear.forward on dependency sets: output unit y depends on what the
\* inputs x with a kept weight depend on (the bias adds no dependency).
MaskedLinear_forward(layer, dep) ==
    LET w == MaskT(layer)
    IN  [y \in Units(layer.n_out) |->
            UNION {dep[x] : x \in {u \in Units(layer.n_in) : w[y][u] = 1}}]

\* nn.Sequential.forward: the layers applied in order.
RECURSIVE Sequential_forward(_, _)
Sequential_forward(layers, dep) ==
    IF layers = <<>> THEN dep
    ELSE Sequential_forward(Tail(layers), MaskedLinear_forward(Head(layers), dep))

\* All sequences over S of length 0..n.
SeqsUpTo(S, n) == UNION {[1 .. k -> S] : k \in 0 .. n}

MaskInit ==
    /\ \E n_groups \in 1 .. MaxGroups :
       \E mask_type \in {"autoregressive", "grouped"} :
       \E ms \in SeqsUpTo(1 .. MaxMult, MaxHidden + 2) :
          /\ Len(ms) >= 2
          /\ mlp_args = [d_in |-> n_groups * ms[1],
                         d_out |-> n_groups * ms[Len(ms)],
                         n_groups |-> n_groups,
                         hidden_sizes |-> [i \in 1 .. (Len(ms) - 2) |-> n_groups * ms[i + 1]],
                         mask_type |-> mask_type]
    /\ mlp_layers = <<>> /\ mlp_conn = <<>> /\ mlp_pc = "args"
    /\ FlowIdle /\ EmaIdle /\ BatchIdle /\ FitIdle

\* MaskedMLP(...) is called.
MaskedMLPBuild ==
    /\ mlp_pc = "args"
    /\ mlp_layers' = MaskedMLP(mlp_args.d_in, mlp_args.d_out, mlp_args.n_groups,
                               mlp_args.hidden_sizes, mlp_args.mask_type)
    /\ mlp_pc' = "built"
    /\ UNCHANGED <<mlp_args, mlp_conn, flowVars, emaVars, batchVars, fitVars>>

\* The network is applied; input unit i starts as depending on itself.
MaskedMLPForward ==
    /\ mlp_pc = "built"
    /\ mlp_conn' = Sequential_forward(mlp_layers, [i \in Units(mlp_args.d_in) |-> {i}])
    /\ mlp_pc' = "applied"
    /\ UNCHANGED <<mlp_args, mlp_layers, flowVars, emaVars, batchVars, fitVars>>

MaskNext == MaskedMLPBuild \/ MaskedMLPForward

SpecMaskedMLP == MaskInit /\ [][MaskNext]_vars

\* group of unit u in a layer of width w
Group(u, w, n_groups) == u \div (w \div n_groups)

\* C1: in an autoregressive MaskedMLP whose widths are multiples of n_groups,
\* every hidden layer's mask connects x to y only if group(x) <= group(y), the
\* last layer's only if group(x) < group(y), and input i is connected to output
\* o of the whole network only if group(i) < group(o); so the outputs of
\* group 0 are connected to no input.
C1_Autoregressive ==
    (mlp_pc = "applied" /\ mlp_args.mask_type = "autoregressive") =>
        LET g == mlp_args.n_groups
            L == Len(mlp_layers)
        IN  /\ \A l \in 1 .. L :
                \A x \in Units(mlp_layers[l].n_in) :
                \A y \in Units(mlp_layers[l].n_out) :
                    mlp_layers[l].mask[x][y] = 1 =>
                        IF l = L
                        THEN Group(x, mlp_layers[l].n_in, g) < Group(y, mlp_layers[l].n_out, g)
                        ELSE Group(x, mlp_layers[l].n_in, g) <= Group(y, mlp_layers[l].n_out, g)
            /\ \A o \in Units(mlp_args.d_out) :
                /\ \A i \in mlp_conn[o] :
                       Group(i, mlp_args.d_in, g) < Group(o, mlp_args.d_out, g)
                /\ Group(o, mlp_args.d_out, g) = 0 => mlp_conn[o] = {}

\* An autoregressive network of three layers and at least two groups has been
\* applied, and some output is connected to an input.
C1_Witness ==
    /\ mlp_pc = "applied"
    /\ mlp_args.mask_type = "autoregressive"
    /\ mlp_args.n_groups >= 2
    /\ Len(mlp_layers) = 3
    /\ \E o \in Units(mlp_args.d_out) : mlp_conn[o] # {}

(***************************************************************************)
(* dine_tools02.py: UniformFlow                                            *)
(***************************************************************************)
MaxD  == 3      \* d ranges over 1..MaxD
MaxDh == 3      \* dh ranges over 1..MaxDh
MaxK  == 3      \* n_components ranges over 1..MaxK

\* What a value can depend on: column i of X, or Z.
XCol(i) == <<"X", i>>
ZIn     == <<"Z", 0>>

\* self.conditioner of UniformFlow.__init__
conditioner(d, dh) == MaskedMLP(d, d * dh, d, <<d>>, "autoregressive")

\* self.c_to_gmm of UniformFlow.__init__
c_to_gmm(d, dh, n_components) ==
    MaskedMLP(d * dh, d * n_components * 3, d, <<d * dh>>, "grouped")

\* self.Z_encoder(Z): an unmasked MLP of width dh; every output depends on Z.
Z_encoder(dh) == [h \in Units(dh) |-> {ZIn}]

\* t.repeat(1, d) of a row of width w: d copies side by side.
repeat(t, w, d) == [u \in Units(w * d) |-> t[u % w]]

\* flat.view(N, -1, d) read back as [j][m]: unit m * d + j (the strided block).
view_strided(flat, width, d) ==
    [j \in Units(d) |-> [m \in Units(width \div d) |-> flat[m * d + j]]]

\* flat.view(N, d, -1): row-major, [j][m] is flat unit j * (width / d) + m.
view(flat, width, d) ==
    [j \in Units(d) |-> [m \in Units(width \div d) |-> flat[j * (width \div d) + m]]]

\* torch.softmax(logits, dim=2): each weight of dimension j depends on all the
\* logits of dimension j.
softmax(logits, d, k) ==
    [j \in Units(d) |-> [m \in Units(k) |-> UNION {logits[j][n] : n \in Units(k)}]]

FlowInit ==
    /\ \E d \in 1 .. MaxD : \E dh \in 1 .. MaxDh : \E k \in 1 .. MaxK :
          flow_args = [d |-> d, dh |-> dh, n_components |-> k]
    /\ flow_c = <<>> /\ flow_gmm = <<>> /\ flow_par = <<>> /\ flow_e = <<>>
    /\ flow_pc = "c"
    /\ MaskIdle /\ EmaIdle /\ BatchIdle /\ FitIdle

\* c = self.conditioner(X) + self.Z_encoder(Z).repeat(1, self.d)
FlowConditioner ==
    /\ flow_pc = "c"
    /\ LET d   == flow_args.d
           dh  == flow_args.dh
           cx  == Sequential_forward(conditioner(d, dh), [i \in Units(d) |-> {XCol(i)}])
           cz  == repeat(Z_encoder(dh), dh, d)
       IN  flow_c' = [u \in Units(d * dh) |-> cx[u] \cup cz[u]]
    /\ flow_pc' = "gmm"
    /\ UNCHANGED <<flow_args, flow_gmm, flow_par, flow_e,
                   maskVars, emaVars, batchVars, fitVars>>

\* gmm = self.c_to_gmm(c).view(N, self.d, -1)
FlowGmm ==
    /\ flow_pc = "gmm"
    /\ LET d == flow_args.d
           k == flow_args.n_components
       IN  flow_gmm' = view(Sequential_forward(c_to_gmm(d, flow_args.dh, k), flow_c),
                            d * k * 3, d)
    /\ flow_pc' = "par"
    /\ UNCHANGED <<flow_args, flow_c, flow_par, flow_e,
                   maskVars, emaVars, batchVars, fitVars>>

\* mu = gmm[..., :k]; std = gmm[..., k:2k].exp() clipped; logits = gmm[..., -k:];
\* w = softmax(logits, dim=2)
FlowParams ==
    /\ flow_pc = "par"
    /\ LET d    == flow_args.d
           k    == flow_args.n_components
           last == 3 * k
           logits == [j \in Units(d) |-> [m \in Units(k) |-> flow_gmm[j][last - k + m]]]
       IN  flow_par' = [mu  |-> [j \in Units(d) |-> [m \in Units(k) |-> flow_gmm[j][m]]],
                        std |-> [j \in Units(d) |-> [m \in Units(k) |-> flow_gmm[j][k + m]]],
                        w   |-> softmax(logits, d, k)]
    /\ flow_pc' = "e"
    /\ UNCHANGED <<flow_args, flow_c, flow_gmm, flow_e,
                   maskVars, emaVars, batchVars, fitVars>>

\* e = (Normal(mu, std).cdf(X[..., None]) * w).sum(dim=2)
FlowE ==
    /\ flow_pc = "e"
    /\ LET d == flow_args.d
           k == flow_args.n_components
       IN  flow_e' = [j \in Units(d) |->
                        {XCol(j)} \cup
                        UNION {flow_par.mu[j][m] \cup flow_par.std[j][m] \cup flow_par.w[j][m]
                               : m \in Units(k)}]
    /\ flow_pc' = "done"
    /\ UNCHANGED <<flow_args, flow_c, flow_gmm, flow_par,
                   maskVars, emaVars, batchVars, fitVars>>

FlowNext == FlowConditioner \/ FlowGmm \/ FlowParams \/ FlowE

SpecUniformFlow == FlowInit /\ [][FlowNext]_vars

\* C2: in UniformFlow.forward the parameters (mu, std, w) of dimension j depend
\* on X only through the columns i < j (and on Z), dimension 0's on Z alone,
\* and e[:, j] depends only on the columns 0..j of X (and on Z).
C2_FlowAutoregressive ==
    /\ flow_pc \in {"e", "done"} =>
          \A j \in Units(flow_args.d) : \A m \in Units(flow_args.n_components) :
          \A p \in {flow_par.mu[j][m], flow_par.std[j][m], flow_par.w[j][m]} :
              /\ p \subseteq {XCol(i) : i \in 0 .. (j - 1)} \cup {ZIn}
              /\ j = 0 => p \subseteq {ZIn}
    /\ flow_pc = "done" =>
          \A j \in Units(flow_args.d) :
              flow_e[j] \subseteq {XCol(i) : i \in 0 .. j} \cup {ZIn}

\* The forward pass has finished for d >= 3 and the parameters of the last
\* dimension do depend on every earlier column and on Z.
C2_Witness ==
    /\ flow_pc = "done"
    /\ flow_args.d >= 3 /\ flow_args.dh >= 2 /\ flow_args.n_components >= 2
    /\ LET j == flow_args.d - 1
       IN  /\ flow_par.mu[j][0] = {XCol(i) : i \in 0 .. (j - 1)} \cup {ZIn}
           /\ flow_par.w[j][1] = {XCol(i) : i \in 0 .. (j - 1)} \cup {ZIn}
           /\ flow_par.mu[0][0] = {ZIn}
           /\ XCol(j) \in flow_e[j]

(***************************************************************************)
(* mine_tools.py: mine_batch                                               *)
(***************************************************************************)
MaxN         == 5   \* len(x) = len(z) ranges over 0..MaxN
MaxBatchSize == 6   \* batch_size ranges over 1..MaxBatchSize

Min(a, b) == IF a <= b THEN a ELSE b

\* Row i of an input: where it came from.
Rows(src, n) == [i \in 1 .. n |-> [src |-> src, idx |-> i - 1]]

\* torch.randperm(n): any permutation of 0..n-1.
randperm(n) == {p \in [1 .. n -> Units(n)] : \A a, b \in 1 .. n : p[a] = p[b] => a = b}

\* t[perm]: row k of the result is row perm[k] of t.
Index(t, perm) == [k \in 1 .. Len(perm) |-> t[perm[k] + 1]]

\* t[lo:hi], Python slicing: 0-based, hi exclusive, clipped to the length.
Slice(t, lo, hi) == SubSeq(t, Min(lo, Len(t)) + 1, Min(hi, Len(t)))

\* A batch count rounded up instead of down.
batch_range_ceil(n, batch_size) == (n + batch_size - 1) \div batch_size

\* range(n // batch_size)
batch_range(n, batch_size) == n \div batch_size

\* The body of mine_batch after the conversion of its inputs, for the
\* permutation drawn when shuffle is set.
mine_batch(x, z, batch_size, shuffle, rand_perm) ==
    LET n  == Len(x)
        xs == IF shuffle THEN Index(x, rand_perm) ELSE x
        zs == IF shuffle THEN Index(z, rand_perm) ELSE z
    IN  [i \in 1 .. batch_range(n, batch_size) |->
            <<Slice(xs, (i - 1) * batch_size, i * batch_size),
              Slice(zs, (i - 1) * batch_size, i * batch_size)>>]

BatchInit ==
    /\ \E n \in 0 .. MaxN : \E b \in 1 .. MaxBatchSize : \E sh \in BOOLEAN :
          mb_args = [x |-> Rows("x", n), z |-> Rows("z", n),
                     batch_size |-> b, shuffle |-> sh]
    /\ mb_batches = <<>> /\ mb_pc = "args"
    /\ MaskIdle /\ FlowIdle /\ EmaIdle /\ FitIdle

MineBatchShuffled ==
    /\ mb_pc = "args" /\ mb_args.shuffle
    /\ \E rand_perm \in randperm(Len(mb_args.x)) :
          mb_batches' = mine_batch(mb_args.x, mb_args.z, mb_args.batch_size, TRUE, rand_perm)
    /\ mb_pc' = "returned"
    /\ UNCHANGED <<mb_args, maskVars, flowVars, emaVars, fitVars>>

MineBatchInOrder ==
    /\ mb_pc = "args" /\ ~mb_args.shuffle
    /\ mb_batches' = mine_batch(mb_args.x, mb_args.z, mb_args.batch_size, FALSE, <<>>)
    /\ mb_pc' = "returned"
    /\ UNCHANGED <<mb_args, maskVars, flowVars, emaVars, fitVars>>

BatchNext == MineBatchShuffled \/ MineBatchInOrder

SpecMineBatch == BatchInit /\ [][BatchNext]_vars

\* The original indices held by the x rows of the returned batches.
UsedIdx == {mb_batches[i][1][k].idx : i \in 1 .. Len(mb_batches), k \in 1 .. mb_args.batch_size}

\* C10: mine_batch returns floor(n / b) batches of exactly b samples each; row k
\* of x and row k of z of a batch come from the same original index; no index
\* occurs twice; exactly n mod b samples are left out (b > n: the empty list);
\* without shuffle the batches are the consecutive slices in original order.
C10_MineBatch ==
    mb_pc = "returned" =>
        LET n == Len(mb_args.x)
            b == mb_args.batch_size
        IN  /\ Len(mb_batches) = n \div b
            /\ \A i \in 1 .. Len(mb_batches) :
                 /\ Len(mb_batches[i][1]) = b /\ Len(mb_batches[i][2]) = b
                 /\ \A k \in 1 .. b :
                      /\ mb_batches[i][1][k].src = "x" /\ mb_batches[i][2][k].src = "z"
                      /\ mb_batches[i][1][k].idx = mb_batches[i][2][k].idx
                      /\ ~mb_args.shuffle => mb_batches[i][1][k].idx = (i - 1) * b + (k - 1)
            /\ UsedIdx \subseteq Units(n)
            /\ Cardinality(UsedIdx) = Len(mb_batches) * b
            /\ n - Cardinality(UsedIdx) = n % b
            /\ b > n => mb_batches = <<>>

\* A shuffled call on five samples returned two batches of two that are not the
\* first two slices of the input, and left out a sample other than the last.
C10_Witness ==
    /\ mb_pc = "returned" /\ mb_args.shuffle
    /\ Len(mb_args.x) = 5 /\ mb_args.batch_size = 2
    /\ Len(mb_batches) = 2
    /\ mb_batches[1][1][1].idx = 3 /\ mb_batches[1][2][1].idx = 3
    /\ 4 \in UsedIdx /\ 0 \notin UsedIdx

(***************************************************************************)
(* mine_tools.py: ema, ema_loss, MineModel.forward (exact arithmetic)      *)
(***************************************************************************)
AlphaSteps == 2     \* alpha ranges over k / AlphaSteps, k in 0..AlphaSteps
MaxMu      == 3     \* a batch's mean of exp(t_marg) ranges over 1..MaxMu
MaxCalls   == 3     \* forward is called at most MaxCalls times

RECURSIVE GCD(_, _)
GCD(a, b) == IF b = 0 THEN a ELSE GCD(b, a % b)

\* Rationals n/d with d > 0, kept in lowest terms.
Rat(n, d) ==
    LET g == GCD(IF n < 0 THEN -n ELSE n, d)
    IN  IF n = 0 THEN [n |-> 0, d |-> 1] ELSE [n |-> n \div g, d |-> d \div g]
RAdd(a, b) == Rat(a.n * b.d + b.n * a.d, a.d * b.d)
RSub(a, b) == Rat(a.n * b.d - b.n * a.d, a.d * b.d)
RMul(a, b) == Rat(a.n * b.n, a.d * b.d)
RZero == Rat(0, 1)
ROne  == Rat(1, 1)

\* ema with the two weights exchanged.
ema_swapped(mu, a, past_ema) == RAdd(RMul(RSub(ROne, a), mu), RMul(a, past_ema))

\* ema: alpha * mu + (1.0 - alpha) * past_ema
ema(mu, a, past_ema) == RAdd(RMul(a, mu), RMul(RSub(ROne, a), past_ema))

\* ema_loss: the running mean it returns, for t_exp the batch mean of exp(x).
ema_loss(t_exp, rm, a) ==
    IF rm = RZero THEN t_exp ELSE ema(t_exp, a, rm)

EmaInit ==
    /\ running_mean = RZero
    /\ mine_loss \in {"mine", "fdiv", "remine", "mine_biased"}
    /\ \E k \in 0 .. AlphaSteps : alpha = Rat(k, AlphaSteps)
    /\ mine_calls = 0
    /\ mine_hist = [mu |-> RZero, prev |-> RZero, inits |-> 0]
    /\ MaskIdle /\ FlowIdle /\ BatchIdle /\ FitIdle

\* MineModel.forward with loss "mine": ema_loss updates self.running_mean.
MineForwardEma ==
    /\ mine_loss = "mine" /\ mine_calls < MaxCalls
    /\ \E m \in 1 .. MaxMu :
          /\ running_mean' = ema_loss(Rat(m, 1), running_mean, alpha)
          /\ mine_hist' = [mu |-> Rat(m, 1), prev |-> running_mean,
                           inits |-> mine_hist.inits + (IF running_mean = RZero THEN 1 ELSE 0)]
    /\ mine_calls' = mine_calls + 1
    /\ UNCHANGED <<mine_loss, alpha, maskVars, flowVars, batchVars, fitVars>>

\* MineModel.forward with any other loss: self.running_mean is not touched.
MineForwardOther ==
    /\ mine_loss # "mine" /\ mine_calls < MaxCalls
    /\ \E m \in 1 .. MaxMu : mine_hist' = [mine_hist EXCEPT !.mu = Rat(m, 1)]
    /\ mine_calls' = mine_calls + 1
    /\ UNCHANGED <<running_mean, mine_loss, alpha, maskVars, flowVars, batchVars, fitVars>>

EmaNext == MineForwardEma \/ MineForwardOther

SpecMineModel == EmaInit /\ [][EmaNext]_vars

\* C3: with loss "mine": running_mean is 0 before the first forward call, the
\* batch mean after the first, alpha * mean + (1 - alpha) * previous after every
\* later one; it is never 0 after the first call and the initialisation branch
\* is taken exactly once.
C3_RunningMean ==
    mine_loss = "mine" =>
        /\ mine_calls = 0 => running_mean = RZero /\ mine_hist.inits = 0
        /\ mine_calls = 1 => running_mean = mine_hist.mu
        /\ mine_calls > 1 =>
              running_mean = RAdd(RMul(alpha, mine_hist.mu),
                                  RMul(RSub(ROne, alpha), mine_hist.prev))
        /\ mine_calls >= 1 => running_mean.n > 0 /\ mine_hist.inits = 1

\* Three calls were made with 0 < alpha < 1 and the running mean lies strictly
\* between the last batch mean and the previous running mean.
C3_Witness ==
    /\ mine_loss = "mine" /\ mine_calls = 3
    /\ alpha.n > 0 /\ alpha.n < alpha.d
    /\ running_mean # mine_hist.mu /\ running_mean # mine_hist.prev
    /\ mine_hist.inits = 1

(***************************************************************************)
(* class_mi.py: ClassMI.fit, calc_mi_fn, get_mi, get_curves                *)
(***************************************************************************)
MaxEpochs  == 3     \* max_epochs ranges over 0..MaxEpochs
MaxBatches == 2     \* the training split yields 0..MaxBatches batches per epoch
MaxAcc     == 2     \* an accuracy ranges over k / MaxAcc, k in 0..MaxAcc

Lr0         == 10000    \* lr = 1e-4, in units of 1e-8 (the scheduler's eps)
LrFactorInv == 10       \* lr_factor = 0.1 = 1 / LrFactorInv

LrPatiences   == {0, 1}
StopPatiences == {1, 2}
StopMinDeltas == {Rat(0, 1), Rat(1, 20), Rat(3, 2)}    \* 0, the default 0.05, 1.5
AccValues     == {Rat(k, MaxAcc) : k \in 0 .. MaxAcc}

RLess(a, b) == a.n * b.d < b.n * a.d
RNeg(a)     == Rat(-a.n, a.d)

\* An unbounded value (float inf) is the empty tuple, a finite one <<v>>.
Inf == <<>>

\* int(stop_min_delta): truncation towards zero of a non-negative number.
int_delta(stop_min_delta) == Rat(stop_min_delta.n \div stop_min_delta.d, 1)

\* One entry of a curve: the .item() of an evaluation's result, named by the
\* evaluation that produced it.
Item(kind, split, i) == [kind |-> kind, split |-> split, epoch |-> i]

\* class_mi_batch(Xtrain, Ztrain, batch_size): the number of batches it yields.
class_mi_batch(n_batches) == n_batches

\* ReduceLROnPlateau(mode="min").is_better with the default relative threshold
\* 1e-4: a < best * (1 - 1e-4); best starts at inf.
is_better(a, best) ==
    IF best = Inf THEN TRUE
    ELSE RLess(a, RMul(best[1], Rat(9999, 10000)))

\* ReduceLROnPlateau._reduce_lr: new_lr = max(lr * factor, min_lr = 0), applied
\* only if lr - new_lr > eps = 1e-8.
reduce_lr(old_lr) ==
    IF (LrFactorInv - 1) * old_lr > LrFactorInv THEN old_lr \div LrFactorInv ELSE old_lr

\* ReduceLROnPlateau.step(metrics) with cooldown 0: the new [best, num_bad_epochs]
\* and whether the rate is to be reduced.
scheduler_step(sch, metrics, patience) ==
    LET better == is_better(metrics, sch.best)
        bad    == IF better THEN 0 ELSE sch.num_bad_epochs + 1
    IN  [best           |-> IF better THEN <<metrics>> ELSE sch.best,
         num_bad_epochs |-> IF bad > patience THEN 0 ELSE bad,
         reduce         |-> bad > patience]

\* EarlyStopping.__call__(loss): an improvement by more than delta resets the
\* counter, anything else counts towards patience.
early_stopping_call(es, loss) ==
    IF es.min_loss = Inf \/ RLess(es.delta, RSub(es.min_loss[1], loss))
    THEN [es EXCEPT !.min_loss = <<loss>>, !.counter = 0]
    ELSE [es EXCEPT !.counter = es.counter + 1,
                    !.early_stop = es.early_stop \/ (es.counter + 1 >= es.patience)]

\* The local lists of fit, in the order get_curves returns them.
CurveNames == <<"train_dkl", "val_dkl", "train_loss_epoch", "val_loss_epoch",
                "train_acc_epoch", "val_acc_epoch">>
NoCurves == [c \in {CurveNames[k] : k \in 1 .. 6} |-> <<>>]

\* The append of the three results of one evaluation onto the lists of a split.
AppendEval(cv, split, i) ==
    [c \in DOMAIN cv |->
        IF c = split \o "_dkl" THEN Append(cv[c], Item("dkl", split, i))
        ELSE IF c = split \o "_loss_epoch" THEN Append(cv[c], Item("loss", split, i))
        ELSE IF c = split \o "_acc_epoch" THEN Append(cv[c], Item("acc", split, i))
        ELSE cv[c]]

FitInit ==
    /\ \E me \in 0 .. MaxEpochs : \E lp \in LrPatiences : \E sp \in StopPatiences :
       \E smd \in StopMinDeltas : \E nb \in 0 .. MaxBatches :
          fit_args = [max_epochs |-> me, lr_patience |-> lp, stop_patience |-> sp,
                      stop_min_delta |-> smd, n_batches |-> nb]
    /\ pc = "call" /\ epoch = 0 /\ batch = 0
    /\ grad_enabled \in BOOLEAN /\ grad_prev = <<>> /\ grad_at_call = grad_enabled
    /\ params = 0 /\ lr = Lr0
    /\ scheduler = [best |-> Inf, num_bad_epochs |-> 0]
    /\ early_stopping = [patience |-> 0, delta |-> RZero, counter |-> 0,
                         min_loss |-> Inf, early_stop |-> FALSE]
    /\ acc = RZero /\ curves = NoCurves /\ self_curves = <<>> /\ steplog = <<>>
    /\ hist = [best |-> Inf, stale |-> 0, reduced |-> FALSE, newbest |-> FALSE, epochs |-> 0]
    /\ got = [call |-> "none", value |-> <<>>]
    /\ MaskIdle /\ FlowIdle /\ EmaIdle /\ BatchIdle

fitFrame == <<maskVars, flowVars, emaVars, batchVars, fit_args, grad_at_call>>

\* fit, up to the loop: optimizer, scheduler, early stopping, split, empty lists.
FitSetup ==
    /\ pc = "call"
    /\ lr' = Lr0
    /\ scheduler' = [best |-> Inf, num_bad_epochs |-> 0]
    /\ early_stopping' = [patience |-> fit_args.stop_patience,
                          delta |-> int_delta(fit_args.stop_min_delta),
                          counter |-> 0, min_loss |-> Inf, early_stop |-> FALSE]
    /\ curves' = NoCurves
    /\ epoch' = 0
    /\ pc' = "epoch_head"
    /\ UNCHANGED <<fitFrame, batch, grad_enabled, grad_prev, params, acc, self_curves,
                   steplog, hist, got>>

\* for i in range(max_epochs): self.train(), and the batches of the epoch.
EpochHead ==
    /\ pc = "epoch_head"
    /\ IF epoch < fit_args.max_epochs
       THEN /\ pc' = "batch_head" /\ batch' = 0 /\ steplog' = <<>>
            /\ hist' = [hist EXCEPT !.reduced = FALSE, !.newbest = FALSE]
       ELSE /\ pc' = "finish" /\ UNCHANGED <<batch, steplog, hist>>
    /\ UNCHANGED <<fitFrame, epoch, grad_enabled, grad_prev, params, lr, scheduler,
                   early_stopping, acc, curves, self_curves, got>>

\* for x, z, x_marg, z_marg in class_mi_batch(...)
BatchHead ==
    /\ pc = "batch_head"
    /\ pc' = IF batch < class_mi_batch(fit_args.n_batches) THEN "zero_grad" ELSE "grad_off"
    /\ UNCHANGED <<fitFrame, epoch, batch, grad_enabled, grad_prev, params, lr, scheduler,
                   early_stopping, acc, curves, self_curves, steplog, hist, got>>

\* opt.zero_grad()
ZeroGrad ==
    /\ pc = "zero_grad"
    /\ steplog' = Append(steplog, "zero_grad")
    /\ pc' = "forward"
    /\ UNCHANGED <<fitFrame, epoch, batch, grad_enabled, grad_prev, params, lr, scheduler,
                   early_stopping, acc, curves, self_curves, hist, got>>

\* with torch.set_grad_enabled(True): the flag is saved and set; self.forward(...)
Forward ==
    /\ pc = "forward"
    /\ grad_prev' = <<grad_enabled>> \o grad_prev
    /\ grad_enabled' = TRUE
    /\ steplog' = Append(steplog, "forward")
    /\ pc' = "loss"
    /\ UNCHANGED <<fitFrame, epoch, batch, params, lr, scheduler,
                   early_stopping, acc, curves, self_curves, hist, got>>

\* loss = self.loss_fn(logits, labels)
Loss ==
    /\ pc = "loss"
    /\ steplog' = Append(steplog, "loss")
    /\ pc' = "backward"
    /\ UNCHANGED <<fitFrame, epoch, batch, grad_enabled, grad_prev, params, lr, scheduler,
                   early_stopping, acc, curves, self_curves, hist, got>>

\* loss.backward()
Backward ==
    /\ pc = "backward"
    /\ steplog' = Append(steplog, "backward")
    /\ pc' = "opt_step"
    /\ UNCHANGED <<fitFrame, epoch, batch, grad_enabled, grad_prev, params, lr, scheduler,
                   early_stopping, acc, curves, self_curves, hist, got>>

\* opt.step(), then the with block is left: the saved flag is restored.
OptStep ==
    /\ pc = "opt_step"
    /\ params' = params + 1
    /\ grad_enabled' = Head(grad_prev)
    /\ grad_prev' = Tail(grad_prev)
    /\ steplog' = Append(steplog, "opt_step")
    /\ batch' = batch + 1
    /\ pc' = "batch_head"
    /\ UNCHANGED <<fitFrame, epoch, lr, scheduler,
                   early_stopping, acc, curves, self_curves, hist, got>>

\* torch.set_grad_enabled(False) as a statement: the flag is set and nothing
\* restores it; self.eval(); with torch.no_grad(): the flag is saved and cleared.
GradOff ==
    /\ pc = "grad_off"
    /\ grad_prev' = <<FALSE>> \o grad_prev
    /\ grad_enabled' = FALSE
    /\ pc' = "eval_train"
    /\ UNCHANGED <<fitFrame, epoch, batch, params, lr, scheduler,
                   early_stopping, acc, curves, self_curves, steplog, hist, got>>

\* calc_mi_fn that also takes an optimizer step.
calc_mi_fn_training(split, i, a, par) ==
    [dkl |-> Item("dkl", split, i), loss |-> Item("loss", split, i), acc |-> a,
     params |-> par + 1]

\* calc_mi_fn(x, z) on a split, for the accuracy a it measures: (Dkl, loss, acc),
\* and the parameters as it leaves them.
calc_mi_fn(split, i, a, par) ==
    [dkl |-> Item("dkl", split, i), loss |-> Item("loss", split, i), acc |-> a,
     params |-> par]

\* dkl, loss, acc = self.calc_mi_fn(Xtrain, Ztrain) and the three appends
EvalTrain ==
    /\ pc = "eval_train"
    /\ \E a \in AccValues :
         LET r == calc_mi_fn("train", epoch, a, params)
         IN  /\ acc' = r.acc
             /\ params' = r.params
    /\ curves' = AppendEval(curves, "train", epoch)
    /\ steplog' = Append(steplog, "eval_train")
    /\ pc' = "eval_val"
    /\ UNCHANGED <<fitFrame, epoch, batch, grad_enabled, grad_prev, lr, scheduler,
                   early_stopping, self_curves, hist, got>>

\* dkl, loss, acc = self.calc_mi_fn(Xval, Zval) and the three appends
EvalVal ==
    /\ pc = "eval_val"
    /\ \E a \in AccValues :
         LET r == calc_mi_fn("val", epoch, a, params)
         IN  /\ acc' = r.acc
             /\ params' = r.params
    /\ curves' = AppendEval(curves, "val", epoch)
    /\ steplog' = Append(steplog, "eval_val")
    /\ pc' = "scheduler_step"
    /\ UNCHANGED <<fitFrame, epoch, batch, grad_enabled, grad_prev, lr, scheduler,
                   early_stopping, self_curves, hist, got>>

\* scheduler.step(acc.item())
SchedulerStep ==
    /\ pc = "scheduler_step"
    /\ LET r == scheduler_step(scheduler, acc, fit_args.lr_patience)
           newbest == hist.best = Inf \/ RLess(hist.best[1], acc)
       IN  /\ scheduler' = [best |-> r.best, num_bad_epochs |-> r.num_bad_epochs]
           /\ lr' = IF r.reduce THEN reduce_lr(lr) ELSE lr
           /\ hist' = [hist EXCEPT !.best    = IF newbest THEN <<acc>> ELSE hist.best,
                                   !.stale   = IF newbest THEN 0 ELSE hist.stale + 1,
                                   !.reduced = lr' # lr,
                                   !.newbest = newbest]
    /\ steplog' = Append(steplog, "scheduler_step")
    /\ pc' = "early_stopping"
    /\ UNCHANGED <<fitFrame, epoch, batch, grad_enabled, grad_prev, params,
                   early_stopping, acc, curves, self_curves, got>>

\* early_stopping(-acc); the no_grad block is left: the saved flag is restored.
EarlyStoppingCall ==
    /\ pc = "early_stopping"
    /\ early_stopping' = early_stopping_call(early_stopping, RNeg(acc))
    /\ grad_enabled' = Head(grad_prev)
    /\ grad_prev' = Tail(grad_prev)
    /\ steplog' = Append(steplog, "early_stopping")
    /\ pc' = "stop_check"
    /\ UNCHANGED <<fitFrame, epoch, batch, params, lr, scheduler,
                   acc, curves, self_curves, hist, got>>

\* The stop check without the break.
StopCheckNoBreak ==
    /\ pc = "stop_check"
    /\ steplog' = Append(steplog, "stop_check")
    /\ hist' = [hist EXCEPT !.epochs = hist.epochs + 1]
    /\ epoch' = epoch + 1
    /\ pc' = "epoch_head"
    /\ UNCHANGED <<fitFrame, batch, grad_enabled, grad_prev, params, lr, scheduler,
                   early_stopping, acc, curves, self_curves, got>>

\* if early_stopping.early_stop: break -- else the next i of range(max_epochs)
StopCheck ==
    /\ pc = "stop_check"
    /\ steplog' = Append(steplog, "stop_check")
    /\ hist' = [hist EXCEPT !.epochs = hist.epochs + 1]
    /\ IF early_stopping.early_stop
       THEN pc' = "finish" /\ epoch' = epoch
       ELSE pc' = "epoch_head" /\ epoch' = epoch + 1
    /\ UNCHANGED <<fitFrame, batch, grad_enabled, grad_prev, params, lr, scheduler,
                   early_stopping, acc, curves, self_curves, got>>

\* self.train_dkl = np.array(train_dkl) ... and fit returns.
FitReturn ==
    /\ pc = "finish"
    /\ self_curves' = curves
    /\ pc' = "done"
    /\ UNCHANGED <<fitFrame, epoch, batch, grad_enabled, grad_prev, params, lr, scheduler,
                   early_stopping, acc, curves, steplog, hist, got>>

\* get_mi(): mi, _, _ = self.calc_mi_fn(self.X, self.Z)
GetMi ==
    /\ pc = "done"
    /\ \E a \in AccValues :
         LET r == calc_mi_fn("all", epoch, a, params)
         IN  /\ got' = [call |-> "get_mi", value |-> <<r.dkl>>]
             /\ params' = r.params
    /\ UNCHANGED <<fitFrame, pc, epoch, batch, grad_enabled, grad_prev, lr, scheduler,
                   early_stopping, acc, curves, self_curves, steplog, hist>>

\* get_curves(): the tuple it returns.
get_curves(sc) ==
    <<sc.train_dkl, sc.val_dkl, sc.train_loss_epoch, sc.val_loss_epoch,
      sc.train_acc_epoch, sc.val_acc_epoch>>

GetCurves ==
    /\ pc = "done"
    /\ got' = [call |-> "get_curves", value |-> get_curves(self_curves)]
    /\ UNCHANGED <<fitFrame, pc, epoch, batch, grad_enabled, grad_prev, params, lr,
                   scheduler, early_stopping, acc, curves, self_curves, steplog, hist>>

FitStep ==
    \/ FitSetup \/ EpochHead \/ BatchHead \/ ZeroGrad \/ Forward \/ Loss \/ Backward
    \/ OptStep \/ GradOff \/ EvalTrain \/ EvalVal \/ SchedulerStep \/ EarlyStoppingCall
    \/ StopCheck \/ FitReturn

Next == FitStep \/ GetMi \/ GetCurves

Spec == FitInit /\ [][Next]_vars

\* fit runs on one thread and every statement of it returns: each step that is
\* enabled is eventually taken.
FairSpec == Spec /\ WF_vars(FitStep)

TrainSteps == <<"zero_grad", "forward", "loss", "backward", "opt_step">>
EvalSteps  == <<"eval_train", "eval_val", "scheduler_step", "early_stopping", "stop_check">>

\* The steps of one epoch over nb training batches, in the order claimed.
EpochSteps(nb) ==
    [k \in 1 .. (5 * nb + 5) |->
        IF k <= 5 * nb THEN TrainSteps[((k - 1) % 5) + 1] ELSE EvalSteps[k - 5 * nb]]

IsPrefix(s, t) == Len(s) <= Len(t) /\ \A k \in 1 .. Len(s) : s[k] = t[k]

C4_Safe ==
    /\ hist.epochs <= fit_args.max_epochs
    /\ (pc # "call" /\ early_stopping.early_stop) => pc \in {"stop_check", "finish", "done"}
    /\ pc \in {"finish", "done"} =>
          (hist.epochs = fit_args.max_epochs \/ early_stopping.early_stop)
    /\ pc = "done" =>
          \A k \in 1 .. 6 : Len(self_curves[CurveNames[k]]) = hist.epochs

\* C4: fit terminates; it runs at most max_epochs epochs; once the early_stop
\* flag is set no training batch is processed any more and fit goes on to
\* return; on return each of the six recorded curves has one entry per epoch run.
C4_FitTerminates == <>(pc = "done") /\ []C4_Safe

\* fit has returned after two epochs, stopped early before max_epochs.
C4_Witness ==
    /\ pc = "done" /\ early_stopping.early_stop
    /\ hist.epochs = 2 /\ fit_args.max_epochs = 3 /\ fit_args.n_batches = 2
    /\ Len(self_curves.val_dkl) = 2

\* C5: get_curves() returns exactly two curves: the validation DKL curve and
\* the validation cross-entropy loss curve, in this order.
C5_TwoCurves ==
    got.call = "get_curves" =>
        got.value = <<self_curves.val_dkl, self_curves.val_loss_epoch>>

\* C6: the learning rate is reduced only after more than lr_patience consecutive
\* epochs in which the validation accuracy did not rise above the best seen so
\* far, and never at the end of an epoch that set a new best.
C6_LrReducedOnlyWhenStale ==
    hist.reduced => (hist.stale > fit_args.lr_patience /\ ~hist.newbest)

C7_Order ==
    pc # "call" =>
        /\ IsPrefix(steplog, EpochSteps(fit_args.n_batches))
        /\ (hist.epochs > 0 /\ pc \in {"epoch_head", "finish", "done"}) =>
              steplog = EpochSteps(fit_args.n_batches)
        /\ pc = "grad_off" => Len(steplog) = 5 * fit_args.n_batches

\* C7: in every epoch the steps are, per training batch, zero_grad, forward,
\* loss, backward, optimizer step; after the last batch the evaluation on the
\* training and then the validation split, one scheduler step, one early-
\* stopping update, the stop check. Only an optimizer step changes the model
\* parameters: no evaluation and no get_mi does.
C7_StepOrder == []C7_Order /\ [][params' # params => pc = "opt_step"]_vars

\* Two full epochs of two batches were run and get_mi was called after fit.
C7_Witness ==
    /\ pc = "done" /\ hist.epochs = 2 /\ fit_args.n_batches = 2
    /\ params = 4 /\ got.call = "get_mi"
    /\ steplog = EpochSteps(2)

\* C8: when fit returns, the autograd flag has the value it had when fit was
\* called.
C8_GradFlagRestored ==
    pc = "done" => grad_enabled = grad_at_call

\* C9: the minimum-improvement threshold handed to the early-stopping criterion
\* equals the stop_min_delta argument of fit.
C9_DeltaAsGiven ==
    pc # "call" => early_stopping.delta = fit_args.stop_min_delta

====
